---------------------------- MODULE Spec2Model ----------------------------
(***************************************************************************)
(* A model of fslock's two platform backends (src/src/unix.rs and          *)
(* src/src/windows.rs): the advisory whole-file lock operations open,      *)
(* lock, try_lock, unlock, close and remove, and the conversion of byte    *)
(* paths to OS-native strings.                                             *)
(*                                                                         *)
(* The library is a thin shim over OS primitives, so the model has two     *)
(* layers.  The OS layer (lockf, libc_open, libc_close, libc_remove,       *)
(* LockFileEx, UnlockFileEx, WaitForSingleObject, CloseHandle, malloc)     *)
(* gives the documented behaviour of each primitive the source calls, at   *)
(* the place the source calls it.  The library layer (unix_lock,           *)
(* unix_try_lock, ..., windows_lock, ..., make_os_str) is the source's own *)
(* code: which primitive it calls, with which command or flags, and how it *)
(* maps the primitive's result to its return value.                        *)
(*                                                                         *)
(* Failures of the environment (lock table full, a signal, out of memory)  *)
(* are inputs of each call, drawn with \E.                                 *)
(***************************************************************************)
EXTENDS Integers, Sequences, FiniteSets, TLC

\* ------------------------------------------------------------------ bounds
NumHandles == 3     \* handles (descriptors) the callers may ever open
NumProcs   == 2     \* cooperating processes
MaxInodes  == 2     \* files the path may name over time (create, remove, create)

Handles == 1 .. NumHandles
Procs   == 1 .. NumProcs
Inodes  == 1 .. MaxInodes

\* The process that owns handle h: a handle is an fd of one process.
Owner(h) == ((h - 1) % NumProcs) + 1

\* ------------------------------------------------------- OS status values
None == "none"                    \* no failure injected / no status
EACCES == "EACCES"
EAGAIN == "EAGAIN"
ENOLCK == "ENOLCK"
EINTR == "EINTR"
ENOENT == "ENOENT"
ENOSPC == "ENOSPC"
EMFILE == "EMFILE"
ERROR_LOCK_VIOLATION == "ERROR_LOCK_VIOLATION"
ERROR_NOT_LOCKED == "ERROR_NOT_LOCKED"
ERROR_INVALID_HANDLE == "ERROR_INVALID_HANDLE"
ERROR_NOT_ENOUGH_MEMORY == "ERROR_NOT_ENOUGH_MEMORY"
WAIT_OBJECT_0 == "WAIT_OBJECT_0"
WAIT_FAILED == "WAIT_FAILED"
NULL == "NULL"

\* lockf commands and LockFileEx flags
F_LOCK == "F_LOCK"
F_TLOCK == "F_TLOCK"
F_ULOCK == "F_ULOCK"
F_TEST == "F_TEST"
LOCKFILE_EXCLUSIVE_LOCK == "LOCKFILE_EXCLUSIVE_LOCK"
LOCKFILE_FAIL_IMMEDIATELY == "LOCKFILE_FAIL_IMMEDIATELY"

\* ------------------------------------------------------------ return values
Ok == [tag |-> "Ok", code |-> None]                 \* Ok(())
OkTrue == [tag |-> "OkTrue", code |-> None]         \* Ok(true)
OkFalse == [tag |-> "OkFalse", code |-> None]       \* Ok(false)
OkFd == [tag |-> "OkFd", code |-> None]             \* Ok(fd)
Unit == [tag |-> "Unit", code |-> None]             \* close returns nothing
Panic == [tag |-> "Panic", code |-> None]           \* unimplemented!() / panic!()
Pending == [tag |-> "Pending", code |-> None]       \* the OS call has not returned
Err(code) == [tag |-> "Err", code |-> code]         \* Err(Error { code })

VARIABLES
    platform,   \* "unix" | "windows": the backend the build selected
    nullWait,   \* what WaitForSingleObject answers for a NULL handle
    pathInode,  \* the file the path names now (0: no such file)
    created,    \* files created so far
    hstate,     \* per handle: "unopened" | "open" | "closed" (the OS's view)
    hinode,     \* per handle: the file it was opened on (0 before open)
    pc,         \* per handle: "idle", or the operation its thread is blocked in
    oslock,     \* per file: the owner of the OS lock (0: free); a process on
                \* unix (lockf locks belong to the process), a handle on windows
    lk,         \* per handle, the caller's view from return values: "none",
                \* "lock" (lock returned Ok), "try" (try_lock returned Ok(true)),
                \* "released" (unlock returned Ok after either)
    last,       \* the last completed call: operation, handle, the OS's answer
                \* and the value returned to the caller
    input,      \* string part: the byte slice handed to the conversion
    heap,       \* string part: malloc'd buffers, by address
    mallocs,    \* string part: sizes asked of malloc, in call order
    result,     \* string part: what the conversion returned
    live,       \* string part: the values the program holds (not yet dropped)
    frees,      \* string part: addresses handed to libc::free, in call order
    mfail,      \* string part: malloc returned null in the last operation
    fmt         \* formatting part: the state of the formatting call in progress

lockVars == <<platform, nullWait, pathInode, created, hstate, hinode, pc, oslock, lk, last>>
strVars == <<input, heap, mallocs, result, live, frees, mfail, fmt>>
vars == <<lockVars, strVars>>

Free == 0

\* The C BOOL value TRUE that LockFileEx and UnlockFileEx return on success.
BOOL_TRUE == 1

\* =========================================================== the OS layer
\* The owner under which the OS records a lock taken through handle h: POSIX
\* record locks (lockf) belong to the process, LockFileEx locks to the handle.
Key(h) == IF platform = "unix" THEN Owner(h) ELSE h

\* Mutant of Contended (C18): locks are kept per path, so that a lock on any
\* file the path has named conflicts.
ContendedOnPath(h) ==
    /\ hinode[h] # 0
    /\ \E i \in Inodes :
        IF platform = "unix" THEN oslock[i] \notin {Free, Owner(h)} ELSE oslock[i] # Free

\* Whether a lock request through h conflicts with the lock on h's file: lockf
\* conflicts only with another process's lock; an exclusive LockFileEx range
\* conflicts with any lock on it, one taken through the same handle included.
Contended(h) ==
    /\ hinode[h] # 0
    /\ IF platform = "unix"
       THEN oslock[hinode[h]] \notin {Free, Owner(h)}
       ELSE oslock[hinode[h]] # Free

OsAnswer(res, errno, blocks, grant, release) ==
    [res |-> res, errno |-> errno, blocks |-> blocks, grant |-> grant, release |-> release]

\* lockf(fd, cmd, 0) on the whole file (offset 0, length 0: to the end and
\* beyond).  fault: a failure of the environment; busy: the status this system
\* reports for contention (EACCES or EAGAIN).
lockf(h, cmd, fault, busy) ==
    IF fault # None THEN OsAnswer(-1, fault, FALSE, FALSE, FALSE)
    ELSE IF cmd = F_LOCK THEN
        IF Contended(h) THEN OsAnswer(0, None, TRUE, FALSE, FALSE)
        ELSE OsAnswer(0, None, FALSE, TRUE, FALSE)
    ELSE IF cmd = F_TLOCK THEN
        IF Contended(h) THEN OsAnswer(-1, busy, FALSE, FALSE, FALSE)
        ELSE OsAnswer(0, None, FALSE, TRUE, FALSE)
    ELSE IF cmd = F_TEST THEN
        IF Contended(h) THEN OsAnswer(-1, busy, FALSE, FALSE, FALSE)
        ELSE OsAnswer(0, None, FALSE, FALSE, FALSE)
    ELSE \* F_ULOCK: releases the process's lock; unlocking an unlocked file succeeds
        OsAnswer(0, None, FALSE, FALSE, oslock[hinode[h]] = Owner(h))

\* LockFileEx(handle, flags, 0, MAX, MAX, &overlapped) on bytes 0 .. 2^64-2.
LockFileEx(h, flags, fault) ==
    IF fault # None THEN OsAnswer(0, fault, FALSE, FALSE, FALSE)
    ELSE IF Contended(h) THEN
        IF LOCKFILE_FAIL_IMMEDIATELY \in flags
        THEN OsAnswer(0, ERROR_LOCK_VIOLATION, FALSE, FALSE, FALSE)
        ELSE OsAnswer(BOOL_TRUE, None, TRUE, FALSE, FALSE)
    ELSE OsAnswer(BOOL_TRUE, None, FALSE, TRUE, FALSE)

\* UnlockFileEx(handle, 0, MAX, MAX, &overlapped): fails when the handle holds
\* no lock on the range.
UnlockFileEx(h, fault) ==
    IF fault # None THEN OsAnswer(0, fault, FALSE, FALSE, FALSE)
    ELSE IF oslock[hinode[h]] = h THEN OsAnswer(BOOL_TRUE, None, FALSE, FALSE, TRUE)
    ELSE OsAnswer(0, ERROR_NOT_LOCKED, FALSE, FALSE, FALSE)

\* WaitForSingleObject(hEvent, 0).  The source passes overlapped.hEvent, which
\* it has set to NULL; what the OS answers for NULL is fixed for a run.
WaitForSingleObject(hEvent) == IF hEvent = NULL THEN nullWait ELSE WAIT_OBJECT_0

\* libc::open(path, O_WRONLY | O_CLOEXEC | O_CREAT, 0644): the descriptor, or
\* -1.  Creating a file beyond the model's file budget fails as a full disk.
libc_open(h, fault) ==
    IF fault # None THEN [fd |-> -1, errno |-> fault, creates |-> FALSE]
    ELSE IF pathInode = 0 /\ created = MaxInodes
    THEN [fd |-> -1, errno |-> ENOSPC, creates |-> FALSE]
    ELSE [fd |-> h - 1, errno |-> None, creates |-> pathInode = 0]

\* libc::remove(path): unlinks the name; open descriptors and their locks stay.
libc_remove(fault) ==
    IF fault # None THEN [res |-> -1, errno |-> fault]
    ELSE IF pathInode = 0 THEN [res |-> -1, errno |-> ENOENT]
    ELSE [res |-> 0, errno |-> None]

\* libc::close(fd): closing ANY descriptor of a file drops every lock the
\* process holds on that file (POSIX record locks).
libc_close(h) ==
    IF oslock[hinode[h]] = Owner(h) THEN [oslock EXCEPT ![hinode[h]] = Free] ELSE oslock

\* CloseHandle(handle): drops the locks taken through that handle.
CloseHandle(h) ==
    IF oslock[hinode[h]] = h THEN [oslock EXCEPT ![hinode[h]] = Free] ELSE oslock

\* ====================================================== the library layer
Outcome(os, wait, ret) == [os |-> os, wait |-> wait, ret |-> ret]

\* Mutant of unix_lock (C6): takes the lock with F_TLOCK, so that a contended
\* lock gives up with the contention status instead of waiting.
unix_lock_gives_up(h, fault, busy) ==
    LET r == lockf(h, F_TLOCK, fault, busy) IN
    Outcome(r, None,
        IF r.blocks THEN Pending
        ELSE IF r.res = 0 THEN Ok ELSE Err(r.errno))

\* unix.rs lock: lockf(fd, F_LOCK, 0); Ok(()) on 0, else Err(last_os_error()).
unix_lock(h, fault, busy) ==
    LET r == lockf(h, F_LOCK, fault, busy) IN
    Outcome(r, None,
        IF r.blocks THEN Pending
        ELSE IF r.res = 0 THEN Ok ELSE Err(r.errno))

\* Mutant of unix_try_lock (C3): probes with F_TEST, which reports a free
\* file without taking the lock.
unix_try_lock_probes(h, fault, busy) ==
    LET r == lockf(h, F_TEST, fault, busy) IN
    Outcome(r, None,
        IF r.blocks THEN Pending
        ELSE IF r.res = 0 THEN OkTrue
        ELSE IF r.errno = EACCES \/ r.errno = EAGAIN THEN OkFalse
        ELSE Err(r.errno))

\* Mutant of unix_try_lock (C4): recognises only EAGAIN as contention.
unix_try_lock_eagain_only(h, fault, busy) ==
    LET r == lockf(h, F_TLOCK, fault, busy) IN
    Outcome(r, None,
        IF r.blocks THEN Pending
        ELSE IF r.res = 0 THEN OkTrue
        ELSE IF r.errno = EAGAIN THEN OkFalse
        ELSE Err(r.errno))

\* Mutant of unix_try_lock (C7): asks with the blocking command F_LOCK.
unix_try_lock_blocking(h, fault, busy) ==
    LET r == lockf(h, F_LOCK, fault, busy) IN
    Outcome(r, None,
        IF r.blocks THEN Pending
        ELSE IF r.res = 0 THEN OkTrue
        ELSE IF r.errno = EACCES \/ r.errno = EAGAIN THEN OkFalse
        ELSE Err(r.errno))

\* unix.rs try_lock: lockf(fd, F_TLOCK, 0); Ok(true) on 0; Ok(false) on EACCES
\* or EAGAIN; Err(from_raw_os_error(errno)) otherwise.
unix_try_lock(h, fault, busy) ==
    LET r == lockf(h, F_TLOCK, fault, busy) IN
    Outcome(r, None,
        IF r.blocks THEN Pending
        ELSE IF r.res = 0 THEN OkTrue
        ELSE IF r.errno = EACCES \/ r.errno = EAGAIN THEN OkFalse
        ELSE Err(r.errno))

\* unix.rs unlock: lockf(fd, F_ULOCK, 0); Ok(()) on 0, else Err(last_os_error()).
unix_unlock(h, fault, busy) ==
    LET r == lockf(h, F_ULOCK, fault, busy) IN
    Outcome(r, None,
        IF r.blocks THEN Pending
        ELSE IF r.res = 0 THEN Ok ELSE Err(r.errno))

\* Mutant of unix_open (C8): returns the descriptor without checking it.
unix_open_unchecked(h, fault) ==
    LET r == libc_open(h, fault) IN
    [os |-> r, ret |-> OkFd]

\* unix.rs open: Ok(fd) when libc::open gave fd >= 0, else Err(last_os_error()).
unix_open(h, fault) ==
    LET r == libc_open(h, fault) IN
    [os |-> r, ret |-> IF r.fd >= 0 THEN OkFd ELSE Err(r.errno)]

\* unix.rs remove: Ok(()) when libc::remove gave 0, else Err(last_os_error()).
unix_remove(fault) ==
    LET r == libc_remove(fault) IN
    [os |-> r, ret |-> IF r.res = 0 THEN Ok ELSE Err(r.errno)]

\* The tail shared by the three windows.rs operations: after the OS call
\* returned TRUE, WaitForSingleObject(overlapped.hEvent, 0) with hEvent NULL;
\* WAIT_FAILED gives Err(last_os_error()), the wait's own error.
AfterWait(r, okValue) ==
    LET w == WaitForSingleObject(NULL) IN
    Outcome(r, w, IF w # WAIT_FAILED THEN okValue ELSE Err(ERROR_INVALID_HANDLE))

\* windows.rs lock: LockFileEx(LOCKFILE_EXCLUSIVE_LOCK), then the wait.
windows_lock(h, fault) ==
    LET r == LockFileEx(h, {LOCKFILE_EXCLUSIVE_LOCK}, fault) IN
    IF r.blocks THEN Outcome(r, None, Pending)
    ELSE IF r.res = BOOL_TRUE THEN AfterWait(r, Ok)
    ELSE Outcome(r, None, Err(r.errno))

\* windows.rs try_lock: LockFileEx(EXCLUSIVE | FAIL_IMMEDIATELY), then the wait;
\* on FALSE, Ok(false) for ERROR_LOCK_VIOLATION and Err(code) otherwise.
windows_try_lock(h, fault) ==
    LET r == LockFileEx(h, {LOCKFILE_EXCLUSIVE_LOCK, LOCKFILE_FAIL_IMMEDIATELY}, fault) IN
    IF r.blocks THEN Outcome(r, None, Pending)
    ELSE IF r.res = BOOL_TRUE THEN AfterWait(r, OkTrue)
    ELSE IF r.errno = ERROR_LOCK_VIOLATION THEN Outcome(r, None, OkFalse)
    ELSE Outcome(r, None, Err(r.errno))

\* windows.rs unlock: UnlockFileEx, then the wait.
windows_unlock(h, fault) ==
    LET r == UnlockFileEx(h, fault) IN
    IF r.res = BOOL_TRUE THEN AfterWait(r, Ok)
    ELSE Outcome(r, None, Err(r.errno))

\* windows.rs open and remove: unimplemented!()
windows_open == Panic
windows_remove == Panic

\* ================================================================ actions
\* The caller's view of handle h after `op` returned `ret` (bookkeeping of
\* return values, as a test harness would keep it; the library keeps none).
\* A closed handle holds nothing; only a completed release is remembered.
CallerView(view, op, ret) ==
    IF op = "lock" /\ ret = Ok THEN "lock"
    ELSE IF op = "try_lock" /\ ret = OkTrue THEN "try"
    ELSE IF op = "unlock" /\ ret = Ok /\ view \in {"lock", "try"} THEN "released"
    ELSE IF op = "close" /\ view # "released" THEN "none"
    ELSE view

Record(op, h, res, errno, wait, ret) ==
    [op |-> op, h |-> h, res |-> res, errno |-> errno, wait |-> wait, ret |-> ret]

\* A lock, try_lock or unlock call returns: the OS's grant or release takes
\* effect and the caller sees the return value.
Return(h, op, out) ==
    /\ oslock' = IF out.os.grant THEN [oslock EXCEPT ![hinode[h]] = Key(h)]
                 ELSE IF out.os.release THEN [oslock EXCEPT ![hinode[h]] = Free]
                 ELSE oslock
    /\ lk' = [lk EXCEPT ![h] = CallerView(lk[h], op, out.ret)]
    /\ pc' = [pc EXCEPT ![h] = "idle"]
    /\ last' = Record(op, h, out.os.res, out.os.errno, out.wait, out.ret)
    /\ UNCHANGED <<platform, nullWait, pathInode, created, hstate, hinode, strVars>>

\* The call is made: it returns at once, or the thread stays inside the OS call.
Call(h, op, out) ==
    IF out.ret = Pending
    THEN /\ pc' = [pc EXCEPT ![h] = op]
         /\ UNCHANGED <<platform, nullWait, pathInode, created, hstate, hinode,
                        oslock, lk, last, strVars>>
    ELSE Return(h, op, out)

Callable(h) == hstate[h] = "open" /\ pc[h] = "idle"

\* A process's handles are numbered in the order it obtains them.
LowestFree(h) ==
    \A g \in Handles : (g < h /\ Owner(g) = Owner(h)) => hstate[g] # "unopened"

UnixOp(op, h, fault, busy) ==
    IF op = "lock" THEN unix_lock(h, fault, busy)
    ELSE IF op = "try_lock" THEN unix_try_lock(h, fault, busy)
    ELSE unix_unlock(h, fault, busy)

WindowsOp(op, h, fault) ==
    IF op = "lock" THEN windows_lock(h, fault)
    ELSE IF op = "try_lock" THEN windows_try_lock(h, fault)
    ELSE windows_unlock(h, fault)

\* ---- unix
UnixOpen(h) ==
    /\ platform = "unix" /\ hstate[h] = "unopened" /\ LowestFree(h)
    /\ \E fault \in {None, EMFILE} :
        LET out == unix_open(h, fault) IN
        /\ hstate' = [hstate EXCEPT ![h] = IF out.os.fd >= 0 THEN "open" ELSE @]
        /\ pathInode' = IF out.os.creates THEN created + 1 ELSE pathInode
        /\ created' = IF out.os.creates THEN created + 1 ELSE created
        /\ hinode' = [hinode EXCEPT ![h] = IF out.os.fd >= 0 THEN pathInode' ELSE @]
        /\ last' = Record("open", h, out.os.fd, out.os.errno, None, out.ret)
        /\ UNCHANGED <<platform, nullWait, pc, oslock, lk, strVars>>

UnixLock(h) ==
    /\ platform = "unix" /\ Callable(h)
    /\ \E fault \in {None, ENOLCK} : Call(h, "lock", unix_lock(h, fault, EAGAIN))

UnixTryLock(h) ==
    /\ platform = "unix" /\ Callable(h)
    /\ \E fault \in {None, ENOLCK}, busy \in {EACCES, EAGAIN} :
        Call(h, "try_lock", unix_try_lock(h, fault, busy))

\* Releasing the whole file splits no region, so it needs no new entry in the
\* lock table and cannot fail with ENOLCK.
UnixUnlock(h) ==
    /\ platform = "unix" /\ Callable(h)
    /\ Call(h, "unlock", unix_unlock(h, None, EAGAIN))

\* The OS grants the lock a blocked call waits for, and the call returns.
UnixGrant(h) ==
    /\ platform = "unix" /\ hstate[h] = "open" /\ pc[h] # "idle" /\ ~Contended(h)
    /\ Return(h, pc[h], UnixOp(pc[h], h, None, EAGAIN))

\* A signal handler runs in the blocked thread: lockf fails with EINTR.
UnixInterrupt(h) ==
    /\ platform = "unix" /\ hstate[h] = "open" /\ pc[h] # "idle"
    /\ Return(h, pc[h], UnixOp(pc[h], h, EINTR, EAGAIN))

\* unix.rs close: libc::close(fd), result ignored.
UnixClose(h) ==
    /\ platform = "unix" /\ Callable(h)
    /\ oslock' = libc_close(h)
    /\ hstate' = [hstate EXCEPT ![h] = "closed"]
    /\ lk' = [lk EXCEPT ![h] = CallerView(@, "close", Unit)]
    /\ last' = Record("close", h, 0, None, None, Unit)
    /\ UNCHANGED <<platform, nullWait, pathInode, created, hinode, pc, strVars>>

UnixRemove ==
    /\ platform = "unix"
    /\ \E fault \in {None, EACCES} :
        LET out == unix_remove(fault) IN
        /\ pathInode' = IF out.os.res = 0 THEN 0 ELSE pathInode
        /\ last' = Record("remove", 0, out.os.res, out.os.errno, None, out.ret)
        /\ UNCHANGED <<platform, nullWait, created, hstate, hinode, pc, oslock, lk, strVars>>

\* ---- windows
\* windows.rs open is unimplemented!(): the call panics and yields no handle.
WindowsOpen(h) ==
    /\ platform = "windows" /\ hstate[h] = "unopened"
    /\ last' = Record("open", h, 0, None, None, windows_open)
    /\ UNCHANGED <<platform, nullWait, pathInode, created, hstate, hinode, pc, oslock, lk, strVars>>

\* A FileDesc (HANDLE) on windows can only come from outside the library: the
\* caller creates or opens the file itself and hands the handle to lock etc.
WindowsHandle(h) ==
    /\ platform = "windows" /\ hstate[h] = "unopened" /\ LowestFree(h)
    /\ hstate' = [hstate EXCEPT ![h] = "open"]
    /\ pathInode' = IF pathInode = 0 THEN created + 1 ELSE pathInode
    /\ created' = IF pathInode = 0 THEN created + 1 ELSE created
    /\ hinode' = [hinode EXCEPT ![h] = pathInode']
    /\ last' = Record("CreateFile", h, 0, None, None, Unit)
    /\ UNCHANGED <<platform, nullWait, pc, oslock, lk, strVars>>

WindowsLock(h) ==
    /\ platform = "windows" /\ Callable(h)
    /\ \E fault \in {None, ERROR_NOT_ENOUGH_MEMORY} : Call(h, "lock", windows_lock(h, fault))

WindowsTryLock(h) ==
    /\ platform = "windows" /\ Callable(h)
    /\ \E fault \in {None, ERROR_NOT_ENOUGH_MEMORY} :
        Call(h, "try_lock", windows_try_lock(h, fault))

WindowsUnlock(h) ==
    /\ platform = "windows" /\ Callable(h)
    /\ \E fault \in {None, ERROR_NOT_ENOUGH_MEMORY} : Call(h, "unlock", windows_unlock(h, fault))

WindowsGrant(h) ==
    /\ platform = "windows" /\ hstate[h] = "open" /\ pc[h] # "idle" /\ ~Contended(h)
    /\ Return(h, pc[h], WindowsOp(pc[h], h, None))

\* windows.rs close: CloseHandle(handle), result ignored.
WindowsClose(h) ==
    /\ platform = "windows" /\ Callable(h)
    /\ oslock' = CloseHandle(h)
    /\ hstate' = [hstate EXCEPT ![h] = "closed"]
    /\ lk' = [lk EXCEPT ![h] = CallerView(@, "close", Unit)]
    /\ last' = Record("close", h, 0, None, None, Unit)
    /\ UNCHANGED <<platform, nullWait, pathInode, created, hinode, pc, strVars>>

\* windows.rs remove is unimplemented!(): the call panics, the file stays.
WindowsRemove ==
    /\ platform = "windows"
    /\ last' = Record("remove", 0, 0, None, None, windows_remove)
    /\ UNCHANGED <<platform, nullWait, pathInode, created, hstate, hinode, pc, oslock, lk, strVars>>

\* ------------------------------------------------------------------- Init
\* No formatting call is in progress.
FmtIdle ==
    [fn |-> "none", src |-> <<>>, sub |-> <<>>, flag |-> FALSE, prev |-> 0,
     out |-> <<>>, pc |-> "idle", wrap |-> FALSE]

StrIdle ==
    /\ input = <<>>
    /\ heap = <<>>
    /\ mallocs = <<>>
    /\ result = [tag |-> "none", at |-> "none", addr |-> 0, code |-> None]
    /\ live = {}
    /\ frees = <<>>
    /\ mfail = FALSE
    /\ fmt = FmtIdle

Init ==
    /\ \/ platform = "unix" /\ nullWait = None
       \/ platform = "windows" /\ nullWait \in {WAIT_OBJECT_0, WAIT_FAILED}
    /\ pathInode = 0
    /\ created = 0
    /\ hstate = [h \in Handles |-> "unopened"]
    /\ hinode = [h \in Handles |-> 0]
    /\ pc = [h \in Handles |-> "idle"]
    /\ oslock = [i \in Inodes |-> Free]
    /\ lk = [h \in Handles |-> "none"]
    /\ last = Record("none", 0, 0, None, None, Unit)
    /\ StrIdle

Next ==
    \/ \E h \in Handles : UnixOpen(h)
    \/ \E h \in Handles : UnixLock(h)
    \/ \E h \in Handles : UnixTryLock(h)
    \/ \E h \in Handles : UnixUnlock(h)
    \/ \E h \in Handles : UnixGrant(h)
    \/ \E h \in Handles : UnixInterrupt(h)
    \/ \E h \in Handles : UnixClose(h)
    \/ UnixRemove
    \/ \E h \in Handles : WindowsOpen(h)
    \/ \E h \in Handles : WindowsHandle(h)
    \/ \E h \in Handles : WindowsLock(h)
    \/ \E h \in Handles : WindowsTryLock(h)
    \/ \E h \in Handles : WindowsUnlock(h)
    \/ \E h \in Handles : WindowsGrant(h)
    \/ \E h \in Handles : WindowsClose(h)
    \/ WindowsRemove

Spec == Init /\ [][Next]_vars

\* ============================================================== the claims
\* Handle h holds the lock as its caller sees it: lock returned Ok or try_lock
\* returned Ok(true), no unlock has returned Ok since, and h is still open.
Holds(h) == hstate[h] = "open" /\ lk[h] \in {"lock", "try"}

SameFile(a, b) == hinode[a] # 0 /\ hinode[a] = hinode[b]

\* The step is the return of `op` on handle h.
Returns(op, h) ==
    /\ last'.op = op /\ last'.h = h /\ pc'[h] = "idle"
    /\ last' # last \/ pc[h] # "idle" \/ lk' # lk \/ oslock' # oslock

\* Statuses with which the environment, not contention, fails a lock call.
EnvFailures == {ENOLCK, EINTR, ERROR_NOT_ENOUGH_MEMORY}
ContentionCodes == IF platform = "unix" THEN {EACCES, EAGAIN} ELSE {ERROR_LOCK_VIOLATION}
OsFailed(rec) == IF platform = "unix" THEN rec.res # 0 ELSE rec.res # BOOL_TRUE

\* C1 (as claimed): mutual exclusion - at most one open handle of a file holds
\* the lock (held from lock returning Ok or try_lock returning Ok(true) until
\* its unlock returns Ok).
C1_MutualExclusion ==
    \A a, b \in Handles : (a # b /\ Holds(a) /\ Holds(b)) => ~SameFile(a, b)

\* C2 (as claimed): while A's lock has returned Ok and A has not unlocked, a
\* try_lock on another handle B of the same file returns Ok(false).  Read in
\* the claim's favour: A is still open, B is on the very same file, and the
\* OS call is not failed by the environment.
C2_TryLockWhileHeld ==
    [][\A b \in Handles :
        ( /\ Returns("try_lock", b)
          /\ \E a \in Handles \ {b} : hstate[a] = "open" /\ lk[a] = "lock" /\ SameFile(a, b)
          /\ last'.errno \notin EnvFailures )
        => last'.ret = OkFalse]_vars

\* C3: release makes the lock available.  After a holder A's unlock returned
\* Ok and A was closed, with no handle holding the lock, a try_lock on another
\* open handle B of the path returns Ok(true) and B then holds the lock
\* (provided the environment does not fail the OS call, which gives Err).
C3_ReleaseMakesAvailable ==
    [][\A b \in Handles :
        ( /\ Returns("try_lock", b)
          /\ \E a \in Handles \ {b} : hstate[a] = "closed" /\ lk[a] = "released"
          /\ \A c \in Handles : ~Holds(c)
          /\ last'.errno \notin EnvFailures )
        => /\ last'.ret = OkTrue
           /\ lk'[b] = "try"
           /\ oslock'[hinode[b]] = Key(b)]_vars

\* C3 witness: B's try_lock has just returned Ok(true) after A released and closed.
C3_Witness ==
    /\ last.op = "try_lock" /\ last.ret = OkTrue
    /\ Holds(last.h)
    /\ \E a \in Handles \ {last.h} : hstate[a] = "closed" /\ lk[a] = "released"
    /\ \A c \in Handles \ {last.h} : ~Holds(c)

\* C4: try_lock never conflates contention with an error.  It returns
\* Ok(false) exactly when the OS lock call failed with the platform's
\* contention status; for any other failing status it returns Err carrying
\* that status; it returns Ok(true) only when the OS call succeeded.
C4_ContentionIsNotAnError ==
    last.op = "try_lock" =>
        /\ last.ret = OkFalse <=> (OsFailed(last) /\ last.errno \in ContentionCodes)
        /\ (OsFailed(last) /\ last.errno \notin ContentionCodes) => last.ret = Err(last.errno)
        /\ last.ret = OkTrue => ~OsFailed(last)

\* C4 witness: a try_lock contended by a holder in another process has
\* returned Ok(false) on EACCES.
C4_Witness ==
    /\ last.op = "try_lock" /\ last.ret = OkFalse
    /\ platform = "unix" /\ last.errno = EACCES
    /\ \E a \in Handles \ {last.h} : Holds(a) /\ SameFile(a, last.h)

\* C5 (as claimed): the blocking lock never reports contention.  It returns
\* only Ok(()) or an Err whose status is not of the contention class; on Ok the
\* caller has the OS lock on the file; and it does not return Ok while another
\* handle holds the lock on the file.
C5_LockBlocksWhileHeld ==
    [][\A b \in Handles : Returns("lock", b) =>
        /\ \/ last'.ret = Ok
           \/ last'.ret.tag = "Err" /\ last'.ret.code \notin {EACCES, EAGAIN, ERROR_LOCK_VIOLATION}
        /\ last'.ret = Ok => oslock'[hinode[b]] = Key(b)
        /\ last'.ret = Ok => ~ \E a \in Handles \ {b} : Holds(a) /\ SameFile(a, b)]_vars

\* C7: try_lock never waits for a holder.  No thread is ever blocked inside
\* try_lock, and every try_lock call returns Ok(true), Ok(false) or Err.
C7_TryLockNeverBlocks ==
    /\ \A h \in Handles : pc[h] # "try_lock"
    /\ last.op = "try_lock" => last.ret.tag \in {"OkTrue", "OkFalse", "Err"}

\* C7 witness: try_lock has returned Ok(false) while another handle holds the
\* lock on the file, and a third thread is blocked in lock on it.
C7_Witness ==
    /\ last.op = "try_lock" /\ last.ret = OkFalse /\ pc[last.h] = "idle"
    /\ \E a \in Handles \ {last.h} : SameFile(a, last.h) /\ oslock[hinode[a]] = Key(a)
    /\ \E c \in Handles \ {last.h} : pc[c] = "lock"

\* C8 (as claimed): open yields exactly one of a valid handle (the file then
\* exists, the handle is open on it and holds no lock) or an OS error with no
\* handle produced; it does not abort, on either backend.
OpenYieldsHandleOrError ==
    \/ /\ last.ret = OkFd
       /\ pathInode # 0
       /\ hstate[last.h] = "open" /\ hinode[last.h] = pathInode
       /\ lk[last.h] = "none"
    \/ /\ last.ret.tag = "Err" /\ last.ret.code # None
       /\ hstate[last.h] = "unopened"

LiveSpec ==
    /\ Init /\ [][Next]_vars
    /\ \A h \in Handles : WF_vars(UnixGrant(h)) /\ WF_vars(WindowsGrant(h))

\* A's unlock has just returned Ok, releasing the lock it held, while B is
\* blocked in lock on the same file and nothing stands in B's way any more.
ReleasedToWaiter(a, b) ==
    /\ last.op = "unlock" /\ last.h = a /\ last.ret = Ok /\ lk[a] = "released"
    /\ pc[b] = "lock" /\ SameFile(a, b)
    /\ ~Contended(b)

\* C6: liveness of the blocking lock.  If B is blocked in lock while A holds,
\* and A unlocks successfully, then B's call eventually returns Ok(()), unless
\* another contender acquires the lock first or a signal fails the call with
\* EINTR; and lock never gives up on its own: a lock call made while another
\* owner has the OS lock returns only with an environment failure, and a
\* blocked call returns only when the OS has granted the lock or with EINTR.
C6_BlockedLockReturns ==
    /\ \A a, b \in Handles :
        (a # b /\ ReleasedToWaiter(a, b))
            ~> \/ pc[b] = "idle" /\ last.op = "lock" /\ last.h = b /\ last.ret = Ok /\ lk[b] = "lock"
               \/ Contended(b)
               \/ last.op = "lock" /\ last.h = b /\ last.ret = Err(EINTR)
    /\ [][\A b \in Handles : Returns("lock", b) =>
            /\ Contended(b) => last'.errno \in EnvFailures
            /\ pc[b] = "lock" => oslock'[hinode[b]] = Key(b) \/ last'.errno = EINTR]_vars

\* C6 witness: B's lock has returned Ok from a blocked call after A's unlock.
C6_Witness ==
    /\ last.op = "lock" /\ last.ret = Ok /\ Holds(last.h)
    /\ \E a \in Handles \ {last.h} :
        hstate[a] = "open" /\ lk[a] = "released" /\ SameFile(a, last.h) /\ Owner(a) # Owner(last.h)

\* ======================================================== native strings
MaxLen == 4         \* longest byte slice converted
MaxByte == 2        \* byte values 0 .. MaxByte (0 is the terminator)

Bytes == 0 .. MaxByte
Slices == UNION {[1 .. n -> Bytes] : n \in 0 .. MaxLen}
Junk == -1          \* a byte of a malloc'd buffer that was never written
ENOMEM == "ENOMEM"

\* slice.contains(&0)
Contains0(slice) == \E i \in 1 .. Len(slice) : slice[i] = 0

\* libc::strlen: the bytes before the first zero (the whole buffer when it
\* holds no zero: the read then runs past its end).
RECURSIVE strlen(_)
strlen(mem) == IF mem = <<>> \/ Head(mem) = 0 THEN 0 ELSE 1 + strlen(Tail(mem))

\* libc::memcpy(dst, src, n)
memcpy(dst, src, n) == [i \in 1 .. Len(dst) |-> IF i <= n THEN src[i] ELSE dst[i]]

\* Values of Result<EitherOsStr, Error>, and the panic.
NoResult == [tag |-> "none", at |-> "none", addr |-> 0, code |-> None]
Panicked == [tag |-> "Panic", at |-> "none", addr |-> 0, code |-> None]
Borrowed(at, addr) == [tag |-> "Borrowed", at |-> at, addr |-> addr, code |-> None]
Owned(addr) == [tag |-> "Owned", at |-> "heap", addr |-> addr, code |-> None]
StrErr(code) == [tag |-> "Err", at |-> "none", addr |-> 0, code |-> code]

Conv(res, hp, ms) == [res |-> res, heap |-> hp, mallocs |-> ms]

\* Mutant of make_os_str (C9): no fast path for a terminated input, which is
\* copied like any other.
make_os_str_always_copies(slice, alloc_ok) ==
    LET n == Len(slice) IN
    IF n > 0 /\ Contains0(SubSeq(slice, 1, n - 1)) THEN Conv(Panicked, heap, mallocs)
    ELSE IF ~alloc_ok THEN Conv(StrErr(ENOMEM), heap, Append(mallocs, n + 1))
    ELSE LET fresh == [i \in 1 .. n + 1 |-> Junk]
             copied == memcpy(fresh, slice, n)
             ended == [copied EXCEPT ![n + 1] = 0]
         IN Conv(Owned(Len(heap) + 1), Append(heap, ended), Append(mallocs, n + 1))

\* Mutant of make_os_str (C10): the terminator is never written.
make_os_str_unterminated(slice, alloc_ok) ==
    LET n == Len(slice) IN
    IF n > 0 /\ Contains0(SubSeq(slice, 1, n - 1)) THEN Conv(Panicked, heap, mallocs)
    ELSE IF n > 0 /\ slice[n] = 0 THEN Conv(Borrowed("input", 1), heap, mallocs)
    ELSE IF ~alloc_ok THEN Conv(StrErr(ENOMEM), heap, Append(mallocs, n + 1))
    ELSE LET fresh == [i \in 1 .. n + 1 |-> Junk]
             copied == memcpy(fresh, slice, n)
         IN Conv(Owned(Len(heap) + 1), Append(heap, copied), Append(mallocs, n + 1))

\* Mutant of make_os_str (C11): no check for a zero inside the input, which is
\* then copied or borrowed as it is and reads as a truncated string.
make_os_str_truncates(slice, alloc_ok) ==
    LET n == Len(slice) IN
    IF n > 0 /\ slice[n] = 0 THEN Conv(Borrowed("input", 1), heap, mallocs)
    ELSE IF ~alloc_ok THEN Conv(StrErr(ENOMEM), heap, Append(mallocs, n + 1))
    ELSE LET fresh == [i \in 1 .. n + 1 |-> Junk]
             copied == memcpy(fresh, slice, n)
             ended == [copied EXCEPT ![n + 1] = 0]
         IN Conv(Owned(Len(heap) + 1), Append(heap, ended), Append(mallocs, n + 1))

\* unix.rs make_os_str.  alloc_ok: whether libc::malloc finds the memory.
make_os_str(slice, alloc_ok) ==
    LET n == Len(slice) IN
    IF n > 0 /\ Contains0(SubSeq(slice, 1, n - 1)) THEN Conv(Panicked, heap, mallocs)
    ELSE IF n > 0 /\ slice[n] = 0 THEN Conv(Borrowed("input", 1), heap, mallocs)
    ELSE IF ~alloc_ok THEN Conv(StrErr(ENOMEM), heap, Append(mallocs, n + 1))
    ELSE LET fresh == [i \in 1 .. n + 1 |-> Junk]
             copied == memcpy(fresh, slice, n)
             ended == [copied EXCEPT ![n + 1] = 0]
         IN Conv(Owned(Len(heap) + 1), Append(heap, ended), Append(mallocs, n + 1))

\* unix.rs impl ToOsStr for str: make_os_str(self.as_bytes())
to_os_str(str, alloc_ok) == make_os_str(str, alloc_ok)

\* The memory an EitherOsStr points into, from its pointer on.
Mem(r) == IF r.at = "input" THEN SubSeq(input, r.addr, Len(input)) ELSE heap[r.addr]

\* The bytes of the OsStr, terminator included.
CBytes(r) == SubSeq(Mem(r), 1, strlen(Mem(r)) + 1)

ToOsStr ==
    /\ result = NoResult
    /\ \E alloc_ok \in BOOLEAN :
        LET c == to_os_str(input, alloc_ok) IN
        /\ result' = c.res
        /\ heap' = c.heap
        /\ mallocs' = c.mallocs
    /\ UNCHANGED <<input, live, frees, mfail, fmt, lockVars>>

LockIdle ==
    /\ platform = "unix" /\ nullWait = None
    /\ pathInode = 0
    /\ created = 0
    /\ hstate = [h \in Handles |-> "unopened"]
    /\ hinode = [h \in Handles |-> 0]
    /\ pc = [h \in Handles |-> "idle"]
    /\ oslock = [i \in Inodes |-> Free]
    /\ lk = [h \in Handles |-> "none"]
    /\ last = Record("none", 0, 0, None, None, Unit)

StrInit ==
    /\ input \in Slices
    /\ heap = <<>>
    /\ mallocs = <<>>
    /\ result = NoResult
    /\ live = {}
    /\ frees = <<>>
    /\ mfail = FALSE
    /\ fmt = FmtIdle
    /\ LockIdle

StrNext == ToOsStr

StrSpec == StrInit /\ [][StrNext]_vars

EndsInZero(slice) == Len(slice) > 0 /\ slice[Len(slice)] = 0
InteriorZero(slice) == Len(slice) > 0 /\ Contains0(SubSeq(slice, 1, Len(slice) - 1))

\* C9: zero-copy conversion.  For a byte sequence whose last byte is zero and
\* which has no zero before it, the conversion calls malloc not at all and
\* returns a Borrowed view of the input's own memory whose bytes, through the
\* terminator, are the input.
C9_ZeroCopy ==
    (result # NoResult /\ EndsInZero(input) /\ ~InteriorZero(input)) =>
        /\ result = Borrowed("input", 1)
        /\ mallocs = <<>> /\ heap = <<>>
        /\ CBytes(result) = input

\* C9 witness: a terminated input of three or more bytes has been converted
\* to a Borrowed view.
C9_Witness ==
    /\ result.tag = "Borrowed" /\ Len(input) >= 3
    /\ EndsInZero(input)

\* C10 (as claimed): for every byte sequence that does not end in a zero byte
\* (the empty one included), when allocation does not fail, the conversion
\* asks malloc for exactly len+1 bytes once and returns Owned; the buffer's
\* first len bytes are the input, byte len is zero, and strlen is len.
OwnedCopyOfInput ==
    /\ result.tag = "Owned"
    /\ mallocs = <<Len(input) + 1>>
    /\ Len(heap[result.addr]) = Len(input) + 1
    /\ SubSeq(heap[result.addr], 1, Len(input)) = input
    /\ heap[result.addr][Len(input) + 1] = 0
    /\ strlen(heap[result.addr]) = Len(input)

C10_OwnedForEveryUnterminated ==
    (result.tag \notin {"none", "Err"} /\ ~EndsInZero(input)) => OwnedCopyOfInput

\* C10 (amended): the same for every byte sequence that contains no zero byte
\* at all; a sequence with a zero before its last byte panics instead.
C10_OwnedForZeroFree ==
    (result.tag \notin {"none", "Err"} /\ ~Contains0(input)) => OwnedCopyOfInput

\* C10 witness: a zero-free input of three or more bytes has been copied to
\* an Owned buffer that ends with the terminator.
C10_Witness ==
    /\ result.tag = "Owned" /\ Len(input) >= 3 /\ ~Contains0(input)
    /\ heap[result.addr] = Append(input, 0)

\* C11: an interior terminator is a defect.  For every input with a zero byte
\* strictly before its last byte, whether or not the last byte is zero and
\* whether or not malloc would succeed, the conversion panics: it returns no
\* Borrowed, Owned or Err value and has called malloc not at all.
C11_InteriorZeroPanics ==
    (result # NoResult /\ InteriorZero(input)) =>
        /\ result = Panicked
        /\ mallocs = <<>> /\ heap = <<>>

\* C11 witness: the conversion has panicked on an input of three or more
\* bytes with a zero in the middle.
C11_Witness ==
    /\ result = Panicked /\ Len(input) >= 3
    /\ input[2] = 0 /\ input[1] # 0

\* ================================================ owned strings and drops
MaxOwnLen == 3      \* longest byte slice converted in the ownership part
MaxVals == 3        \* values the program holds at one time
MaxAllocs == 3      \* calls of malloc

OwnSlices == UNION {[1 .. n -> Bytes] : n \in 0 .. MaxOwnLen}

\* An OsString { alloc }, as the Ok value of into_os_string.
OsStringAt(addr) == [tag |-> "OsString", at |-> "heap", addr |-> addr, code |-> None]

\* A value the program holds: an EitherOsStr::Borrowed or ::Owned or an
\* OsString, the memory it points to, and the content (the bytes before the
\* terminator) of the source it was made from.
Value(tag, at, addr, of) == [tag |-> tag, at |-> at, addr |-> addr, of |-> of]

\* The variants that own their buffer: dropping them runs Drop for OsString.
Owners == {"Owned", "OsString"}

\* The bytes of a terminated string before its terminator.
Content(mem) == SubSeq(mem, 1, strlen(mem))

\* The content of a str handed to a conversion: all of it, or all but the
\* trailing terminator.
SrcContent(str) == IF EndsInZero(str) THEN SubSeq(str, 1, Len(str) - 1) ELSE str

\* Mutant of osstr_into_os_string (C12): copies len bytes, not len + 1, so the
\* terminator is never written.
osstr_into_os_string_short(mem, alloc_ok) ==
    LET len == strlen(mem) IN
    IF ~alloc_ok THEN Conv(StrErr(ENOMEM), heap, Append(mallocs, len + 1))
    ELSE LET fresh == [i \in 1 .. len + 1 |-> Junk]
             copied == memcpy(fresh, mem, len)
         IN Conv(OsStringAt(Len(heap) + 1), Append(heap, copied), Append(mallocs, len + 1))

\* Mutant of osstr_into_os_string (C14): a null from malloc is a panic.
osstr_into_os_string_aborts(mem, alloc_ok) ==
    LET len == strlen(mem) IN
    IF ~alloc_ok THEN Conv(Panicked, heap, Append(mallocs, len + 1))
    ELSE LET fresh == [i \in 1 .. len + 1 |-> Junk]
             copied == memcpy(fresh, mem, len + 1)
         IN Conv(OsStringAt(Len(heap) + 1), Append(heap, copied), Append(mallocs, len + 1))

\* unix.rs impl IntoOsString for &OsStr: len = strlen(self); malloc(len + 1);
\* Err(last_os_error()) on null; memcpy of len + 1 bytes, terminator included.
osstr_into_os_string(mem, alloc_ok) ==
    LET len == strlen(mem) IN
    IF ~alloc_ok THEN Conv(StrErr(ENOMEM), heap, Append(mallocs, len + 1))
    ELSE LET fresh == [i \in 1 .. len + 1 |-> Junk]
             copied == memcpy(fresh, mem, len + 1)
         IN Conv(OsStringAt(Len(heap) + 1), Append(heap, copied), Append(mallocs, len + 1))

\* unix.rs impl IntoOsString for EitherOsStr: Borrowed(str) => str.into_os_string(),
\* Owned(string) => Ok(string).
either_into_os_string(v, alloc_ok) ==
    IF v.tag = "Borrowed" THEN osstr_into_os_string(Mem(v), alloc_ok)
    ELSE Conv(OsStringAt(v.addr), heap, mallocs)

\* unix.rs impl IntoOsString for OsString: Ok(self).
osstring_into_os_string(v) == Conv(OsStringAt(v.addr), heap, mallocs)

\* unix.rs impl IntoOsString for &str: self.to_os_str()?.into_os_string().
str_into_os_string(str, alloc_ok) ==
    LET c == to_os_str(str, alloc_ok) IN
    IF c.res.tag = "Borrowed" THEN osstr_into_os_string(Mem(c.res), alloc_ok)
    ELSE IF c.res.tag = "Owned" THEN Conv(OsStringAt(c.res.addr), c.heap, c.mallocs)
    ELSE c

\* unix.rs impl ToOsStr for OsStr and for OsString: Ok(Borrowed(self)) and
\* Ok(Borrowed(self.as_ref())): a view of the same memory.
osstr_to_os_str(v) == Conv(Borrowed(v.at, v.addr), heap, mallocs)

\* Mutant of drop_OsString (C13): the buffer is never handed to free.
drop_OsString_leaks(addr) == frees

\* unix.rs impl Drop for OsString: libc::free(self.alloc).
drop_OsString(addr) == Append(frees, addr)

\* ---- actions of the ownership part
\* The values a conversion's Ok result adds to what the program holds.
Made(res, of) ==
    IF res.tag \in {"Borrowed", "Owned", "OsString"}
    THEN {Value(res.tag, res.at, res.addr, of)}
    ELSE {}

\* A conversion returns: c is its result and heap effect, `gone` the values it
\* consumed (moved in), `of` the content of its source.
Converted(c, gone, of, alloc_ok) ==
    /\ result' = c.res
    /\ heap' = c.heap
    /\ mallocs' = c.mallocs
    /\ mfail' = (Len(c.mallocs) > Len(mallocs) /\ ~alloc_ok)
    /\ live' = (live \ gone) \cup Made(c.res, of)
    /\ UNCHANGED <<input, frees, fmt, lockVars>>

Room == Cardinality(live) < MaxVals
MayAlloc == Len(mallocs) < MaxAllocs

\* str.to_os_str()
StrToOsStr ==
    /\ Room /\ MayAlloc
    /\ \E alloc_ok \in BOOLEAN :
        Converted(to_os_str(input, alloc_ok), {}, SrcContent(input), alloc_ok)

\* str.into_os_string()
StrIntoOsString ==
    /\ Room /\ MayAlloc
    /\ \E alloc_ok \in BOOLEAN :
        Converted(str_into_os_string(input, alloc_ok), {}, SrcContent(input), alloc_ok)

\* v.to_os_str() for an OsString, or for the OsStr a held value points to.
OsStrToOsStr(v) ==
    /\ Room
    /\ Converted(osstr_to_os_str(v), {}, Content(Mem(v)), TRUE)

\* (&OsStr).into_os_string() on the OsStr a held value points to; the
\* reference is not consumed.
OsStrIntoOsString(v) ==
    /\ Room /\ MayAlloc
    /\ \E alloc_ok \in BOOLEAN :
        Converted(osstr_into_os_string(Mem(v), alloc_ok), {}, Content(Mem(v)), alloc_ok)

\* EitherOsStr::into_os_string(self): the value is moved in.
EitherIntoOsString(v) ==
    /\ v.tag \in {"Borrowed", "Owned"} /\ MayAlloc
    /\ \E alloc_ok \in BOOLEAN :
        Converted(either_into_os_string(v, alloc_ok), {v},
                  IF v.tag = "Borrowed" THEN Content(Mem(v)) ELSE v.of, alloc_ok)

\* OsString::into_os_string(self): the value is moved in and handed back.
OsStringIntoOsString(v) ==
    /\ v.tag = "OsString"
    /\ Converted(osstring_into_os_string(v), {v}, v.of, TRUE)

\* A held value goes out of scope.  An owner cannot be dropped while a view
\* borrowed from it is held (the borrow checker rejects such a program).
DropValue(v) ==
    /\ v.tag \in Owners =>
        ~ \E w \in live : w.tag = "Borrowed" /\ w.at = "heap" /\ w.addr = v.addr
    /\ live' = live \ {v}
    /\ frees' = IF v.tag \in Owners THEN drop_OsString(v.addr) ELSE frees
    /\ mfail' = FALSE
    /\ UNCHANGED <<input, heap, mallocs, result, fmt, lockVars>>

OwnInit ==
    /\ input \in OwnSlices
    /\ heap = <<>>
    /\ mallocs = <<>>
    /\ result = NoResult
    /\ live = {}
    /\ frees = <<>>
    /\ mfail = FALSE
    /\ fmt = FmtIdle
    /\ LockIdle

OwnNext ==
    \/ StrToOsStr
    \/ StrIntoOsString
    \/ \E v \in live : OsStrToOsStr(v)
    \/ \E v \in live : OsStrIntoOsString(v)
    \/ \E v \in live : EitherIntoOsString(v)
    \/ \E v \in live : OsStringIntoOsString(v)
    \/ \E v \in live : DropValue(v)

OwnSpec == OwnInit /\ [][OwnNext]_vars

\* C12: invariant of owned strings.  Every OsString the program holds,
\* whichever conversion made it, has a buffer that ends with a zero byte, has
\* no zero byte before it, and whose bytes before the terminator are the
\* content of the source it was made from.
C12_OwnedStringsTerminated ==
    \A v \in live : v.tag \in Owners =>
        LET buf == heap[v.addr] IN
        /\ Len(buf) >= 1 /\ buf[Len(buf)] = 0
        /\ ~Contains0(SubSeq(buf, 1, Len(buf) - 1))
        /\ SubSeq(buf, 1, Len(buf) - 1) = v.of

\* C12 witness: an OsString copied from a terminated view is held next to
\* another owned buffer, both with two or more bytes of content.
C12_Witness ==
    /\ result.tag = "OsString" /\ Len(heap) >= 2 /\ EndsInZero(input)
    /\ \E v \in live : v.tag = "OsString" /\ v.addr = result.addr /\ Len(v.of) >= 2

\* How often an address was handed to free, and how many held values own it.
FreeCount(a) == Cardinality({i \in DOMAIN frees : frees[i] = a})
OwnerCount(a) == Cardinality({v \in live : v.tag \in Owners /\ v.addr = a})

\* C13: every buffer allocated for an OsString is freed exactly once.  At any
\* point of any sequence of conversions and drops, each malloc'd buffer is
\* either owned by exactly one held value and not freed, or owned by none and
\* freed once (so it is never freed twice, and once every value is dropped
\* none is leaked); only malloc'd buffers are freed; and a step in which a
\* Borrowed view goes away frees nothing.
C13_FreedExactlyOnce ==
    /\ [](\A a \in DOMAIN heap : FreeCount(a) + OwnerCount(a) = 1)
    /\ [](\A i \in DOMAIN frees : frees[i] \in DOMAIN heap)
    /\ [][(\E v \in live \ live' : v.tag = "Borrowed") => frees' = frees]_vars

\* C13 witness: two buffers were allocated, every value has been dropped and
\* each buffer was freed.
C13_Witness ==
    /\ live = {} /\ Len(heap) >= 2
    /\ \A a \in DOMAIN heap : FreeCount(a) = 1

OwnersOf(vals) == {v \in vals : v.tag \in Owners}

\* C14: allocation failure is a recoverable error.  Whenever malloc returns
\* null in a conversion (in make_os_str or in into_os_string for &OsStr), the
\* conversion returns Err with malloc's status, no buffer is created or
\* written, nothing is freed and the program holds no new OsString.
C14_AllocFailureIsErr ==
    [][mfail' =>
        /\ result' = StrErr(ENOMEM)
        /\ heap' = heap /\ frees' = frees
        /\ OwnersOf(live') = OwnersOf(live)]_vars

\* C14 witness: into_os_string for &OsStr has failed for want of memory
\* while an OsString made earlier is still held.
C14_Witness ==
    /\ mfail /\ result = StrErr(ENOMEM) /\ EndsInZero(input)
    /\ \E v \in live : v.tag = "OsString"

\* ======================================================= Display for OsStr
MaxDispLen == 3     \* longest byte string displayed

\* The bytes displayed: 'A'; C3 A9, a two-byte character; E2, the lead byte
\* of a three-byte character; FF, a byte no character contains.
DispBytes == {65, 195, 169, 226, 255}
DispStrings == UNION {[1 .. n -> DispBytes] : n \in 0 .. MaxDispLen}

\* What the output holds for the replacement marker U+FFFD (valid text is
\* held as its bytes).
Marker == 65533

\* core::str::from_utf8, as Display calls it.  The width a lead byte
\* announces (0: the byte starts no character) ...
utf8_char_width(b) ==
    IF b < 128 THEN 1
    ELSE IF b >= 194 /\ b <= 223 THEN 2
    ELSE IF b >= 224 /\ b <= 239 THEN 3
    ELSE IF b >= 240 /\ b <= 244 THEN 4
    ELSE 0

\* ... the range of the second byte, which depends on the lead byte ...
utf8_second_ok(b0, b1) ==
    IF b0 = 224 THEN b1 >= 160 /\ b1 <= 191
    ELSE IF b0 = 237 THEN b1 >= 128 /\ b1 <= 159
    ELSE IF b0 = 240 THEN b1 >= 144 /\ b1 <= 191
    ELSE IF b0 = 244 THEN b1 >= 128 /\ b1 <= 143
    ELSE b1 >= 128 /\ b1 <= 191

\* ... the length of the character at the head of s (0: none is there) ...
CharLen(s) ==
    LET w == utf8_char_width(s[1]) IN
    IF w = 0 \/ Len(s) < w THEN 0
    ELSE IF w = 1 THEN 1
    ELSE IF /\ utf8_second_ok(s[1], s[2])
            /\ \A i \in 3 .. w : s[i] >= 128 /\ s[i] <= 191
         THEN w ELSE 0

\* ... and Utf8Error::valid_up_to(): the length of the longest valid prefix
\* (Len(s) when from_utf8 gives Ok).
RECURSIVE valid_up_to(_)
valid_up_to(s) ==
    IF s = <<>> THEN 0
    ELSE LET n == CharLen(s) IN
         IF n = 0 THEN 0 ELSE n + valid_up_to(SubSeq(s, n + 1, Len(s)))

\* One turn of the loop of unix.rs Display for OsStr, on the rest `sub`:
\* Ok(string) writes it and empties sub; Err(err) writes the valid prefix and
\* the marker and goes on at sub[err.valid_up_to() + 1 ..].
display_turn(sub, out) ==
    LET upto == valid_up_to(sub) IN
    IF upto = Len(sub)
    THEN [out |-> out \o sub, sub |-> <<>>]
    ELSE [out |-> out \o SubSeq(sub, 1, upto) \o <<Marker>>,
          sub |-> SubSeq(sub, upto + 2, Len(sub))]

\* while sub.len() > 0 { ... }
DisplayTurn ==
    /\ fmt.fn = "Display" /\ fmt.pc = "loop" /\ Len(fmt.sub) > 0
    /\ LET t == display_turn(fmt.sub, fmt.out) IN
       fmt' = [fmt EXCEPT !.out = t.out, !.sub = t.sub]
    /\ UNCHANGED <<input, heap, mallocs, result, live, frees, mfail, lockVars>>

\* Ok(()) once sub is empty.
DisplayReturn ==
    /\ fmt.fn = "Display" /\ fmt.pc = "loop" /\ Len(fmt.sub) = 0
    /\ fmt' = [fmt EXCEPT !.pc = "done"]
    /\ UNCHANGED <<input, heap, mallocs, result, live, frees, mfail, lockVars>>

\* Display is called on an OsStr whose bytes before the terminator are src:
\* slice = from_raw_parts(ptr, strlen(ptr)); sub = slice.
DispInit ==
    /\ \E src \in DispStrings :
        fmt = [FmtIdle EXCEPT !.fn = "Display", !.src = src,
                              !.sub = Content(Append(src, 0)), !.pc = "loop"]
    /\ input = <<>> /\ heap = <<>> /\ mallocs = <<>> /\ result = NoResult
    /\ live = {} /\ frees = <<>> /\ mfail = FALSE
    /\ LockIdle

DispNext == DisplayTurn \/ DisplayReturn

DispSpec == DispInit /\ [][DispNext]_vars

\* The output the claim describes: valid characters unchanged, and one marker
\* for each maximal run of bytes at which no character starts.
RECURSIVE Resynchronized(_, _)
Resynchronized(s, inRun) ==
    IF s = <<>> THEN <<>>
    ELSE LET n == CharLen(s) IN
         IF n > 0 THEN SubSeq(s, 1, n) \o Resynchronized(SubSeq(s, n + 1, Len(s)), FALSE)
         ELSE (IF inRun THEN <<>> ELSE <<Marker>>) \o Resynchronized(Tail(s), TRUE)

\* C15 (as claimed): for every byte string, what Display has written when it
\* returns is the valid text unchanged with exactly one replacement marker per
\* maximal invalid run (a run of two or more invalid bytes gives one marker).
C15_DisplayResynchronizes ==
    fmt.fn = "Display" /\ fmt.pc = "done" => fmt.out = Resynchronized(fmt.src, FALSE)

\* ================================================ windows.rs write_wide_str
MaxWideLen == 4     \* longest sequence of 16-bit units written

\* The units written: 'A'; D83D, a high surrogate; DE00, a low surrogate.
WideUnits == {65, 55357, 56832}
WideStrings == UNION {[1 .. n -> WideUnits] : n \in 0 .. MaxWideLen}

HIGH_BASE == 55296          \* 0xD800
LOW_BASE == 56320           \* 0xDC00
LAST_BEFORE == 55295        \* 0xD7FF
FIRST_AFTER == 57344        \* 0xE000
SUPPLEMENT == 65536         \* 0x10000
U16 == 2 ^ 16

\* The halves of a 32-bit value: the model holds a u32 as its upper and its
\* lower 16 bits.
Hi(x) == x \div U16
Lo(x) == x % U16

\* a | b on unsigned integers
RECURSIVE BitOr(_, _)
BitOr(a, b) ==
    IF a = 0 THEN b
    ELSE IF b = 0 THEN a
    ELSE (IF a % 2 = 1 \/ b % 2 = 1 THEN 1 ELSE 0) + 2 * BitOr(a \div 2, b \div 2)

\* char::try_from(u32) is Ok: a scalar value, that is, no surrogate and at
\* most 0x10FFFF.
IsChar(v) == v <= 1114111 /\ ~(v >= HIGH_BASE /\ v < FIRST_AFTER)

WideStep(out, suplement, prev, panic) ==
    [out |-> out, suplement |-> suplement, prev |-> prev, panic |-> panic]

\* The body of the loop of write_wide_str for one unit `code`.  wrap: whether
\* the build wraps u32 arithmetic on overflow (overflow checks off) or
\* panics (overflow checks on).
wide_turn(code, out, suplement, prev, wrap) ==
    IF suplement THEN
        LET high == prev - HIGH_BASE
            low == code - LOW_BASE          \* below 0: the u32 subtraction overflows
            lowHi == IF low < 0 THEN U16 - 1 ELSE 0     \* the wrapped difference
            lowLo == low % U16
            orHi == BitOr(Hi(high * 1024), lowHi)       \* high << 10 | low
            orLo == BitOr(Lo(high * 1024), lowLo)
            sumHi == orHi + Hi(SUPPLEMENT)              \* ... + 0x10000
            ch == (sumHi % U16) * U16 + orLo
        IN IF (low < 0 \/ sumHi >= U16) /\ ~wrap
           THEN WideStep(out, suplement, prev, TRUE)
           ELSE IF sumHi % U16 <= Hi(1114111) /\ IsChar(ch)
                THEN WideStep(Append(out, ch), suplement, prev, FALSE)
                ELSE WideStep(out, suplement, prev, TRUE)
    ELSE IF code <= LAST_BEFORE \/ code >= FIRST_AFTER
        THEN WideStep(Append(out, code), suplement, prev, FALSE)
    ELSE WideStep(out, TRUE, code, FALSE)

\* for &code in string { ... }
WideTurn ==
    /\ fmt.fn = "write_wide_str" /\ fmt.pc = "loop" /\ Len(fmt.sub) > 0
    /\ LET t == wide_turn(Head(fmt.sub), fmt.out, fmt.flag, fmt.prev, fmt.wrap) IN
       fmt' = [fmt EXCEPT !.out = t.out, !.flag = t.suplement, !.prev = t.prev,
                          !.sub = Tail(fmt.sub),
                          !.pc = IF t.panic THEN "panic" ELSE "loop"]
    /\ UNCHANGED <<input, heap, mallocs, result, live, frees, mfail, lockVars>>

\* Ok(()) after the last unit.
WideReturn ==
    /\ fmt.fn = "write_wide_str" /\ fmt.pc = "loop" /\ Len(fmt.sub) = 0
    /\ fmt' = [fmt EXCEPT !.pc = "done"]
    /\ UNCHANGED <<input, heap, mallocs, result, live, frees, mfail, lockVars>>

\* write_wide_str is called: suplement = false, prev = 0.
WideInit ==
    /\ \E src \in WideStrings, wrap \in BOOLEAN :
        fmt = [FmtIdle EXCEPT !.fn = "write_wide_str", !.src = src, !.sub = src,
                              !.pc = "loop", !.wrap = wrap]
    /\ input = <<>> /\ heap = <<>> /\ mallocs = <<>> /\ result = NoResult
    /\ live = {} /\ frees = <<>> /\ mfail = FALSE
    /\ LockIdle

WideNext == WideTurn \/ WideReturn

WideSpec == WideInit /\ [][WideNext]_vars

IsHigh(u) == u >= HIGH_BASE /\ u < LOW_BASE
IsLow(u) == u >= LOW_BASE /\ u < FIRST_AFTER

\* Surrogates well paired: each high surrogate is followed at once by a low
\* one, and each low surrogate follows a high one.
WellPaired(s) ==
    \A i \in DOMAIN s :
        /\ IsHigh(s[i]) => i < Len(s) /\ IsLow(s[i + 1])
        /\ IsLow(s[i]) => i > 1 /\ IsHigh(s[i - 1])

\* The scalars the claim describes for a well-paired sequence.
RECURSIVE WideDecoded(_)
WideDecoded(s) ==
    IF s = <<>> THEN <<>>
    ELSE IF IsHigh(s[1])
    THEN <<((s[1] - HIGH_BASE) * 1024 + (s[2] - LOW_BASE)) + SUPPLEMENT>>
            \o WideDecoded(SubSeq(s, 3, Len(s)))
    ELSE <<s[1]>> \o WideDecoded(Tail(s))

\* C16 (as claimed): for every well-paired sequence of 16-bit units,
\* write_wide_str does not abort and what it has written when it returns is,
\* position by position, the unit itself for a unit outside D800-DFFF and the
\* combined scalar for a surrogate pair, also after an earlier pair.
C16_WideDecoding ==
    (fmt.fn = "write_wide_str" /\ WellPaired(fmt.src)) =>
        /\ fmt.pc # "panic"
        /\ fmt.pc = "done" => fmt.out = WideDecoded(fmt.src)

\* ================================================= more claims on locking
\* C17 (as claimed): a failed acquisition leaves everything as it was.
\* Whenever lock returns Err, or try_lock returns Err or Ok(false), the call
\* has acquired nothing: the OS lock of every file and every handle's view
\* are as before the call, so that the OS never granted a lock on a call that
\* reports an error.
C17_FailedAcquisitionHoldsNothing ==
    [][\A h \in Handles :
        ( \/ Returns("lock", h) /\ last'.ret.tag = "Err"
          \/ Returns("try_lock", h) /\ last'.ret.tag \in {"Err", "OkFalse"} )
        => oslock' = oslock /\ lk' = lk]_vars

\* C18 (as claimed): mutual exclusion per path survives remove.  While a
\* handle A holds the lock it took on the file the path named, no handle that
\* a later open of the path returned, after a remove, holds the lock: never
\* do A, on an earlier file of the path, and B, on a later one, both hold.
C18_ExclusionSurvivesRemove ==
    \A a, b \in Handles :
        ~ ( /\ Holds(a) /\ oslock[hinode[a]] = Key(a)
            /\ Holds(b) /\ oslock[hinode[b]] = Key(b)
            /\ hinode[a] < hinode[b] )

\* The step is a call of remove that succeeded.
Removed == last'.op = "remove" /\ last'.ret = Ok /\ pathInode # 0 /\ pathInode' = 0

\* C18 (amended): exclusion is per file, not per path.  A successful remove
\* unlinks the name whether or not the file is open or locked, and leaves
\* every handle and every lock as it was; the next open of the path creates a
\* new file; and only a lock on the very file a handle is open on stands in
\* the way of its try_lock: absent an environment failure, try_lock returns
\* Ok(false) when another process holds the lock on that file and Ok(true)
\* otherwise, whatever is locked on a removed file of the same path.
C18_ExclusionIsPerFile ==
    /\ [][Removed => /\ oslock' = oslock /\ lk' = lk
                     /\ hstate' = hstate /\ hinode' = hinode]_vars
    /\ [][\A b \in Handles :
            (platform = "unix" /\ last'.op = "open" /\ last'.h = b /\ last'.ret = OkFd
                /\ hstate[b] = "unopened" /\ pathInode = 0)
            => /\ hinode'[b] = created + 1
               /\ \A a \in Handles \ {b} : hinode[a] # hinode'[b]
               /\ oslock'[hinode'[b]] = Free]_vars
    /\ [][\A b \in Handles :
            (platform = "unix" /\ Returns("try_lock", b) /\ last'.errno \notin EnvFailures)
            => IF oslock[hinode[b]] \notin {Free, Owner(b)}
               THEN last'.ret = OkFalse
               ELSE last'.ret = OkTrue /\ oslock'[hinode[b]] = Owner(b)]_vars

\* C18 witness: after a remove and a new open, B's try_lock has returned
\* Ok(true) on the new file while A, in another process, still holds the lock
\* on the removed one.
C18_Witness ==
    /\ last.op = "try_lock" /\ last.ret = OkTrue
    /\ \E a \in Handles \ {last.h} :
        /\ Owner(a) # Owner(last.h)
        /\ Holds(a) /\ oslock[hinode[a]] = Key(a)
        /\ Holds(last.h) /\ oslock[hinode[last.h]] = Key(last.h)
        /\ hinode[a] < hinode[last.h] /\ pathInode = hinode[last.h]

\* The step is close(b).
Closes(b) == hstate[b] = "open" /\ hstate'[b] = "closed"

\* C19 (as claimed): close(h) affects only h.  For distinct open handles A
\* and B of the same file, where A holds the lock and the OS lock on the file
\* is A's, closing B leaves the OS lock with A (so that a try_lock on a third
\* handle of the file still meets contention).
C19_CloseAffectsOnlyItsHandle ==
    [][\A a, b \in Handles :
        ( /\ a # b /\ Closes(b) /\ SameFile(a, b)
          /\ Holds(a) /\ oslock[hinode[a]] = Key(a) )
        => /\ Holds(a)'
           /\ oslock'[hinode[a]] = Key(a)]_vars

\* ========================================================= Debug for OsStr
MaxDbgLen == 3      \* longest string formatted (bytes before the terminator)
MaxOut == 9         \* pieces of output written before the model looks no further

DebugBytes == {1, 2, 97}
DebugStrings == UNION {[1 .. n -> DebugBytes] : n \in 0 .. MaxDbgLen}

\* One turn of the loop of unix.rs Debug for OsStr, reached when *ptr != 0:
\* if first { first = false } else { write ", " }; write *ptr.  Nothing in
\* the loop moves ptr.
debug_turn(mem, first, out) ==
    [first |-> FALSE,
     out |-> (IF first THEN out ELSE Append(out, ", ")) \o <<ToString(Head(mem))>>,
     mem |-> mem]

\* write!(fmt, "[")
DebugOpen ==
    /\ fmt.fn = "Debug" /\ fmt.pc = "start"
    /\ fmt' = [fmt EXCEPT !.out = Append(@, "["), !.pc = "loop"]
    /\ UNCHANGED <<input, heap, mallocs, result, live, frees, mfail, lockVars>>

\* while *ptr != 0 { ... }
DebugTurn ==
    /\ fmt.fn = "Debug" /\ fmt.pc = "loop" /\ Head(fmt.sub) # 0
    /\ Len(fmt.out) < MaxOut
    /\ LET t == debug_turn(fmt.sub, fmt.flag, fmt.out) IN
       fmt' = [fmt EXCEPT !.out = t.out, !.flag = t.first, !.sub = t.mem]
    /\ UNCHANGED <<input, heap, mallocs, result, live, frees, mfail, lockVars>>

\* write!(fmt, "]"); Ok(())
DebugClose ==
    /\ fmt.fn = "Debug" /\ fmt.pc = "loop" /\ Head(fmt.sub) = 0
    /\ fmt' = [fmt EXCEPT !.out = Append(@, "]"), !.pc = "done"]
    /\ UNCHANGED <<input, heap, mallocs, result, live, frees, mfail, lockVars>>

\* Debug is called on an OsStr (directly, or by Debug for OsString on
\* self.as_ref()): first = false; ptr = the first byte.  src holds the bytes
\* before the terminator, sub the memory from ptr on.
DebugInit ==
    /\ \E src \in DebugStrings :
        fmt = [FmtIdle EXCEPT !.fn = "Debug", !.src = src, !.sub = Append(src, 0),
                              !.flag = FALSE, !.pc = "start"]
    /\ input = <<>> /\ heap = <<>> /\ mallocs = <<>> /\ result = NoResult
    /\ live = {} /\ frees = <<>> /\ mfail = FALSE
    /\ LockIdle

DebugNext == DebugOpen \/ DebugTurn \/ DebugClose

DebugSpec == DebugInit /\ [][DebugNext]_vars

\* The formatting thread keeps running: a step it can take is taken.
DebugLive == DebugSpec /\ WF_vars(DebugNext)

\* The output the claim describes: "[", the elements with ", " between
\* them, "]".
RECURSIVE Elements(_)
Elements(s) ==
    IF s = <<>> THEN <<>>
    ELSE IF Len(s) = 1 THEN <<ToString(s[1])>>
    ELSE <<ToString(s[1]), ", ">> \o Elements(Tail(s))

Listed(s) == <<"[">> \o Elements(s) \o <<"]">>

IsPrefix(p, s) == Len(p) <= Len(s) /\ SubSeq(s, 1, Len(p)) = p

\* C20 (as claimed): Debug formatting of a native string terminates.  For
\* every OsStr with n >= 0 bytes before its terminator, what Debug has written
\* is at every moment a beginning of "[", the n elements separated by ", ",
\* "]" (each byte once, no separator before the first element), and the call
\* eventually returns, having written all of it.
C20_DebugTerminates ==
    /\ [](fmt.fn = "Debug" => IsPrefix(fmt.out, Listed(fmt.src)))
    /\ [](fmt.fn = "Debug" /\ fmt.pc = "done" => fmt.out = Listed(fmt.src))
    /\ (fmt.fn = "Debug") ~> (fmt.pc = "done")
=============================================================================
